---- MODULE Spec2Model ----
(***************************************************************************)
(* Model of three Home Assistant integration adapters:                     *)
(*   - the MySensors config flow  (mysensors/config_flow.py)               *)
(*   - the XS1 switch platform    (xs1/switch.py)                          *)
(*   - the ZHA diagnostics export (zha/diagnostics.py)                     *)
(* The three adapters share no state; each has its own specification.      *)
(***************************************************************************)
EXTENDS Integers, Sequences, FiniteSets, TLC

VARIABLES
    entries,      \* the MySensors config entries of the host: a set of [title, data]
    call,         \* the last call made to a step of the config flow
    result,       \* the FlowResult (or the exception) that call ended with
    errors,       \* the handler's local errors dictionary when it ended
    connects,     \* how many times try_connect ran during that call
    gw_type_attr, \* MySensorsConfigFlowHandler._gw_type
    components,   \* hass.config.components
    checked       \* the last direct call of validate_persistence_file and its outcome

flowVars == <<entries, call, result, errors, connects, gw_type_attr, components, checked>>

VARIABLES
    actuators,          \* hass.data[COMPONENT_DOMAIN][ACTUATORS]
    add_entities_calls, \* the entity lists add_entities was called with
    xs1_pc              \* "ready" before setup_platform, "done" after it

xs1Vars == <<actuators, add_entities_calls, xs1_pc>>

VARIABLES
    zha_device_info,  \* the dictionary obtained from zha_device.zha_device_info
    zha_endpoints,    \* zha_device.device.endpoints
    zha_data,         \* yaml_config, config_entry.as_dict() and app.state
    diag_call,        \* the diagnostics function called last
    diag_result       \* what it returned

diagVars == <<zha_device_info, zha_endpoints, zha_data, diag_call, diag_result>>

vars == <<flowVars, xs1Vars, diagVars>>

(***************************************************************************)
(* Python dictionaries are functions from keys to values.                  *)
(***************************************************************************)
EmptyDict == <<>>

\* d[k] = v
Put(d, k, v) == [x \in (DOMAIN d) \cup {k} |-> IF x = k THEN v ELSE d[x]]

\* d.update(e)
Update(d, e) ==
    [x \in (DOMAIN d) \cup (DOMAIN e) |-> IF x \in DOMAIN e THEN e[x] ELSE d[x]]

\* str.endswith(suffix)
EndsWith(s, suffix) ==
    /\ Len(s) >= Len(suffix)
    /\ SubSeq(s, Len(s) - Len(suffix) + 1, Len(s)) = suffix

(***************************************************************************)
(* XS1 switch platform (xs1/switch.py)                                     *)
(***************************************************************************)
MaxActuators == 3

ActuatorTypes == {"SWITCH", "DIMMER", "SHUTTER", "TEMPERATURE"}

\* the actuator lists the XS1 component can have stored: the i-th actuator is
\* known by its number i
ActuatorLists ==
    UNION { { [i \in 1..n |-> [id |-> i, type |-> types[i]]] :
                types \in [1..n -> ActuatorTypes] } : n \in 0..MaxActuators }

\* XS1SwitchEntity(actuator)
XS1SwitchEntity(actuator) == [device |-> actuator]

\* a test of lines 25-27 that forgets the dimmers
IsSwitchActuatorNoDimmer(actuator) == actuator.type = "SWITCH"

\* lines 25-27: the actuator is a switch or a dimmer
IsSwitchActuator(actuator) == actuator.type = "SWITCH" \/ actuator.type = "DIMMER"

\* lines 23-28: the loop over actuators, from the i-th on
RECURSIVE SwitchEntitiesFrom(_, _, _)
SwitchEntitiesFrom(acts, i, switch_entities) ==
    IF i > Len(acts) THEN switch_entities
    ELSE SwitchEntitiesFrom(acts, i + 1,
            IF IsSwitchActuator(acts[i])
            THEN Append(switch_entities, XS1SwitchEntity(acts[i]))
            ELSE switch_entities)

\* setup_platform
SetupPlatform ==
    /\ xs1_pc = "ready"
    /\ add_entities_calls' =
          Append(add_entities_calls, SwitchEntitiesFrom(actuators, 1, <<>>))
    /\ xs1_pc' = "done"
    /\ UNCHANGED actuators
    /\ UNCHANGED <<flowVars, diagVars>>

(***************************************************************************)
(* ZHA diagnostics (zha/diagnostics.py)                                    *)
(* A Python value is a node: a leaf, a dict, a list, a dataclass instance  *)
(* or an object with an as_dict method.  The items of a list are keyed by  *)
(* their position, and integer keys of a dict are written in decimal.      *)
(***************************************************************************)
Leaf(v) == [kind |-> "leaf", val |-> v, items |-> <<>>]
Dict(f) == [kind |-> "dict", val |-> "", items |-> f]
List(f) == [kind |-> "list", val |-> "", items |-> f]
Dataclass(f) == [kind |-> "dataclass", val |-> "", items |-> f]
AsDictObject(f) == [kind |-> "as_dict", val |-> "", items |-> f]

ATTR_IEEE == "ieee"
CONF_UNIQUE_ID == "unique_id"
CONF_ALARM_MASTER_CODE == "alarm_master_code"
CONF_NWK_EXTENDED_PAN_ID == "extended_pan_id"
CONF_ID == "id"
CONF_NAME == "name"
ATTR_ATTRIBUTE_NAME == "attribute_name"
ATTR_DEVICE_TYPE == "device_type"
ATTR_IN_CLUSTERS == "in_clusters"
ATTR_OUT_CLUSTERS == "out_clusters"
ATTR_PROFILE_ID == "profile_id"
ATTR_VALUE == "value"
UNKNOWN == "unknown"

KEYS_TO_REDACT ==
    {ATTR_IEEE, CONF_UNIQUE_ID, CONF_ALARM_MASTER_CODE, "network_key",
     CONF_NWK_EXTENDED_PAN_ID, "partner_ieee"}

ATTRIBUTES == "attributes"
CLUSTER_DETAILS == "cluster_details"
UNSUPPORTED_ATTRIBUTES == "unsupported_attributes"

REDACTED == "**REDACTED**"

\* diagnostics.util.async_redact_data
RECURSIVE AsyncRedactData(_, _)
AsyncRedactData(data, to_redact) ==
    CASE data.kind = "list" ->
            List([i \in DOMAIN data.items |-> AsyncRedactData(data.items[i], to_redact)])
      [] data.kind = "dict" ->
            Dict([k \in DOMAIN data.items |->
                    IF k \in to_redact THEN Leaf(REDACTED)
                    ELSE AsyncRedactData(data.items[k], to_redact)])
      [] OTHER -> data

\* shallow_asdict
RECURSIVE ShallowAsdict(_)
ShallowAsdict(obj) ==
    CASE obj.kind = "dataclass" ->
            Dict([field \in DOMAIN obj.items |-> ShallowAsdict(obj.items[field])])
      [] obj.kind = "as_dict" -> Dict(obj.items)
      [] OTHER -> obj

HexDigits == <<"0", "1", "2", "3", "4", "5", "6", "7", "8", "9", "a", "b", "c", "d", "e", "f">>

\* f"0x{n:04x}"
Hex04(n) ==
    IF n >= 65536 THEN "0x" \o "10000"
    ELSE "0x" \o HexDigits[((n \div 4096) % 16) + 1] \o HexDigits[((n \div 256) % 16) + 1]
              \o HexDigits[((n \div 16) % 16) + 1] \o HexDigits[(n % 16) + 1]

\* an integer key or value, written in decimal
IntStr(n) ==
    CASE n = 0 -> "0" [] n = 1 -> "1" [] n = 2 -> "2" [] n = 6 -> "6"
      [] n = 256 -> "256" [] n = 260 -> "260" [] n = 4660 -> "4660"

\* zigpy PROFILES.get(profile_id) is not None
ProfileKnown(profile_id) == profile_id = 260

\* PROFILES.get(profile_id).DeviceType(device_type).name
DeviceTypeName(profile_id, device_type) == "ON_OFF_LIGHT"

\* get_cluster_attr_data: attributes with a cached value, and the unsupported ones
GetClusterAttrData(cluster) ==
    [k \in {ATTRIBUTES, UNSUPPORTED_ATTRIBUTES} |->
        IF k = ATTRIBUTES
        THEN Dict([a \in {Hex04(attr_id) : attr_id \in
                            {i \in DOMAIN cluster.attributes :
                                cluster.cache[cluster.attributes[i]] # "None"}} |->
                    LET attr_id == CHOOSE i \in DOMAIN cluster.attributes : Hex04(i) = a
                    IN Dict([f \in {ATTR_ATTRIBUTE_NAME, ATTR_VALUE} |->
                                IF f = ATTR_ATTRIBUTE_NAME
                                THEN Leaf(cluster.attributes[attr_id])
                                ELSE Leaf(cluster.cache[cluster.attributes[attr_id]])])])
        ELSE Dict([a \in {Hex04(u_attr) : u_attr \in cluster.unsupported_attributes} |->
                    LET attr_id == CHOOSE i \in cluster.unsupported_attributes : Hex04(i) = a
                    IN Dict([f \in {ATTR_ATTRIBUTE_NAME} |->
                                Leaf(cluster.attributes[attr_id])])])]

\* lines 122-135: the details of the clusters of one direction
ClusterDetails(clusters) ==
    Dict([c \in {Hex04(cluster_id) : cluster_id \in DOMAIN clusters} |->
            LET cluster == clusters[CHOOSE i \in DOMAIN clusters : Hex04(i) = c]
            IN Dict(Put(GetClusterAttrData(cluster), "endpoint_attribute",
                        Leaf(cluster.ep_attribute)))])

\* lines 110-115
EndpointKey(endpoint) ==
    IF ProfileKnown(endpoint.profile_id) /\ endpoint.device_type # "None"
    THEN DeviceTypeName(endpoint.profile_id, endpoint.device_type)
    ELSE UNKNOWN

\* get_endpoint_cluster_attr_data: endpoint 0 is skipped
GetEndpointClusterAttrData(endpoints) ==
    Dict([e \in {IntStr(ep_id) : ep_id \in DOMAIN endpoints \ {0}} |->
            LET endpoint == endpoints[CHOOSE i \in DOMAIN endpoints : IntStr(i) = e]
            IN Dict([k \in {ATTR_DEVICE_TYPE, ATTR_PROFILE_ID, ATTR_IN_CLUSTERS,
                            ATTR_OUT_CLUSTERS} |->
                CASE k = ATTR_DEVICE_TYPE ->
                        Dict([f \in {CONF_NAME, CONF_ID} |->
                                IF f = CONF_NAME THEN Leaf(EndpointKey(endpoint))
                                ELSE Leaf(endpoint.device_type)])
                  [] k = ATTR_PROFILE_ID -> Leaf(IntStr(endpoint.profile_id))
                  [] k = ATTR_IN_CLUSTERS -> ClusterDetails(endpoint.in_clusters)
                  [] k = ATTR_OUT_CLUSTERS -> ClusterDetails(endpoint.out_clusters)])])

\* lines 99-100: device_info, the object zha_device_info gave, with its new key
DeviceInfoWithClusterDetails(device_info, endpoints) ==
    Dict(Put(device_info.items, CLUSTER_DETAILS, GetEndpointClusterAttrData(endpoints)))

\* an async_get_device_diagnostics that returns device_info as it is
DeviceDiagnosticsUnredacted(device_info, endpoints) ==
    DeviceInfoWithClusterDetails(device_info, endpoints)

\* async_get_device_diagnostics: what it returns
DeviceDiagnostics(device_info, endpoints) ==
    AsyncRedactData(DeviceInfoWithClusterDetails(device_info, endpoints), KEYS_TO_REDACT)

\* lines 77-88: the energy scan per channel and the versions of the libraries
EnergyScan == Dict([channel \in {"11", "15"} |-> Leaf("energy")])

LibraryVersions ==
    Dict([lib \in {"bellows", "zigpy", "zigpy_deconz", "zigpy_xbee", "zigpy_znp",
                   "zigpy_zigate", "zhaquirks"} |-> Leaf("version")])

\* async_get_config_entry_diagnostics: what it returns
ConfigEntryDiagnostics(data) ==
    AsyncRedactData(
        Dict([k \in {"config", "config_entry", "application_state", "energy_scan",
                     "versions"} |->
            CASE k = "config" -> data.yaml_config
              [] k = "config_entry" -> data.config_entry
              [] k = "application_state" -> ShallowAsdict(data.app_state)
              [] k = "energy_scan" -> EnergyScan
              [] k = "versions" -> LibraryVersions]),
        KEYS_TO_REDACT)

\* async_get_device_diagnostics
AsyncGetDeviceDiagnostics ==
    /\ diag_result' = DeviceDiagnostics(zha_device_info, zha_endpoints)
    /\ zha_device_info' = DeviceInfoWithClusterDetails(zha_device_info, zha_endpoints)
    /\ diag_call' = "device"
    /\ UNCHANGED <<zha_endpoints, zha_data>>
    /\ UNCHANGED <<flowVars, xs1Vars>>

\* async_get_config_entry_diagnostics
AsyncGetConfigEntryDiagnostics ==
    /\ diag_result' = ConfigEntryDiagnostics(zha_data)
    /\ diag_call' = "config_entry"
    /\ UNCHANGED <<zha_device_info, zha_endpoints, zha_data>>
    /\ UNCHANGED <<flowVars, xs1Vars>>

(***************************************************************************)
(* The vendor data the diagnostics read                                    *)
(***************************************************************************)
MaxDepth == 2

\* the values of depth at most n whose dict keys are key and "name"
RECURSIVE Values(_, _)
Values(key, n) ==
    IF n = 0 THEN {Leaf("original")}
    ELSE LET below == Values(key, n - 1)
         IN below
            \cup {Dict(f) : f \in UNION {[ks -> below] : ks \in (SUBSET {key, "name"}) \ {{}}}}
            \cup {List([i \in {"0"} |-> v]) : v \in below}

\* the same value with every dict made a dataclass instance
RECURSIVE AsDataclass(_)
AsDataclass(v) ==
    CASE v.kind = "dict" -> Dataclass([k \in DOMAIN v.items |-> AsDataclass(v.items[k])])
      [] v.kind = "list" -> List([k \in DOMAIN v.items |-> AsDataclass(v.items[k])])
      [] OTHER -> v

\* the same value with its outermost dict an object that has as_dict
AsAsDictObject(v) == IF v.kind = "dict" THEN AsDictObject(v.items) ELSE v

DictValues(key, n) == {v \in Values(key, n) : v.kind = "dict"}

OnOffCluster(cached, unsupported) ==
    [ep_attribute |-> "on_off",
     attributes |-> [i \in {0} |-> "on_off"],
     cache |-> [a \in {"on_off"} |-> cached],
     unsupported_attributes |-> unsupported]

Clusters == {OnOffCluster(c, u) : c \in {"None", "1"}, u \in {{}, {0}}}

ClusterMaps == {<<>>} \cup {[i \in {6} |-> c] : c \in Clusters}

Endpoints ==
    [profile_id : {260, 4660}, device_type : {"None", "256"},
     in_clusters : ClusterMaps, out_clusters : ClusterMaps]

\* endpoint 0 is the ZDO
ZDO == [profile_id |-> 0, device_type |-> "None", in_clusters |-> <<>>, out_clusters |-> <<>>]

EndpointMaps ==
    {[i \in {0} |-> ZDO]} \cup {[i \in {0, 1} |-> IF i = 0 THEN ZDO ELSE e] : e \in Endpoints}

DefaultEndpoints == [i \in {0, 1} |-> IF i = 0 THEN ZDO ELSE
                        [profile_id |-> 260, device_type |-> "256",
                         in_clusters |-> [c \in {6} |-> OnOffCluster("1", {})],
                         out_clusters |-> <<>>]]

DefaultInfo == Dict([k \in {ATTR_IEEE, "name"} |-> Leaf("original")])

DefaultData ==
    [yaml_config |-> Dict(<<>>), config_entry |-> DefaultInfo,
     app_state |-> Dataclass(<<>>)]

NoDiagnostics == Leaf("")

(***************************************************************************)
(* MySensors config flow: constants                                        *)
(***************************************************************************)
CONF_DEVICE == "device"
CONF_VERSION == "version"
CONF_PERSISTENCE_FILE == "persistence_file"
CONF_TOPIC_IN_PREFIX == "topic_in_prefix"
CONF_TOPIC_OUT_PREFIX == "topic_out_prefix"
CONF_GATEWAY_TYPE == "gateway_type"
CONF_GATEWAY_TYPE_SERIAL == "Serial"
CONF_GATEWAY_TYPE_TCP == "TCP"
CONF_GATEWAY_TYPE_MQTT == "MQTT"

MQTT_COMPONENT == "mqtt"

\* file names are sequences of characters, so that endswith is computed
DOT_JSON == <<".", "j", "s", "o", "n">>
DOT_PICKLE == <<".", "p", "i", "c", "k", "l", "e">>
DOT_TXT == <<".", "t", "x", "t">>

StepIds == {"gw_serial", "gw_tcp", "gw_mqtt"}

\* the gateway type each step passes on (lines 68-70, 76-78, 87-89)
StepGwType(step_id) ==
    CASE step_id = "gw_serial" -> CONF_GATEWAY_TYPE_SERIAL
      [] step_id = "gw_tcp" -> CONF_GATEWAY_TYPE_TCP
      [] step_id = "gw_mqtt" -> CONF_GATEWAY_TYPE_MQTT

(***************************************************************************)
(* The values a user can submit.                                           *)
(***************************************************************************)
SerialDevice == "/dev/ttyACM0"
TcpDevice == "127.0.0.1"
Devices == {SerialDevice, TcpDevice}
Versions == {"2.3", "x.y"}
Topics == {"t1", "t2", "a#b"}
PersistenceFiles == {<<>>, <<"a">> \o DOT_JSON, <<"a">> \o DOT_TXT}

OptionalKeys == {CONF_TOPIC_IN_PREFIX, CONF_TOPIC_OUT_PREFIX, CONF_PERSISTENCE_FILE}

\* device and version are vol.Required in the form; the other keys may be absent
UserInputs ==
    { [k \in {CONF_DEVICE, CONF_VERSION} \cup opt |-> full[k]] :
        full \in [device : Devices, version : Versions, topic_in_prefix : Topics,
                  topic_out_prefix : Topics, persistence_file : PersistenceFiles],
        opt \in SUBSET OptionalKeys }

(***************************************************************************)
(* Helpers the flow calls that are defined outside config_flow.py.         *)
(***************************************************************************)
\* mqtt.valid_subscribe_topic: TRUE when it returns, FALSE when it raises vol.Invalid
valid_subscribe_topic(topic) == topic \in {"t1", "t2"}

\* _validate_version: the errors it returns
ValidateVersion(version) ==
    IF version = "2.3" THEN EmptyDict
    ELSE [k \in {CONF_VERSION} |-> "invalid_version"]

\* gateway.is_serial_port: TRUE when it returns, FALSE when it raises vol.Invalid
is_serial_port(device) == device = SerialDevice

\* gateway.is_socket_address: TRUE when it returns, FALSE when it raises vol.Invalid
is_socket_address(device) == device = TcpDevice

\* _is_same_device: the gateway of another entry is the submitted one
IsSameDevice(gw_type, user_input, other_entry) ==
    other_entry.data[CONF_DEVICE] = user_input[CONF_DEVICE]

(***************************************************************************)
(* config_flow.py                                                          *)
(***************************************************************************)
\* a validate_persistence_file that knows the .json ending only
validate_persistence_file_json_only(value) ==
    IF EndsWith(value, DOT_JSON)
    THEN [raised |-> FALSE, value |-> value]
    ELSE [raised |-> TRUE, value |-> <<>>]

\* validate_persistence_file: the value it returns, or raised for vol.Invalid
validate_persistence_file(value) ==
    IF EndsWith(value, DOT_JSON) \/ EndsWith(value, DOT_PICKLE)
    THEN [raised |-> FALSE, value |-> value]
    ELSE [raised |-> TRUE, value |-> <<>>]

\* self._validate_persistence_file(persistence_file, errors)
ValidatePersistenceFileInto(persistence_file, errs) ==
    IF validate_persistence_file(persistence_file).raised
    THEN Put(errs, CONF_PERSISTENCE_FILE, "invalid_persistence_file")
    ELSE errs

\* dict.get(key) of an entry's data, "" standing for None
DataGet(data, key) == IF key \in DOMAIN data THEN data[key] ELSE ""

\* a _check_topic_exists that forgets the other entries' out-prefix
CheckTopicExistsInOnly(topic, ents) ==
    \E other_config \in ents :
        topic = DataGet(other_config.data, CONF_TOPIC_IN_PREFIX)

\* _check_topic_exists
CheckTopicExists(topic, ents) ==
    \E other_config \in ents :
        \/ topic = DataGet(other_config.data, CONF_TOPIC_IN_PREFIX)
        \/ topic = DataGet(other_config.data, CONF_TOPIC_OUT_PREFIX)

\* _validate_topic: user_input[topic_key] raises KeyError when the key is absent
ValidateTopic(user_input, errs, topic_key, ents) ==
    IF topic_key \notin DOMAIN user_input
    THEN [exc |-> "KeyError", errors |-> errs]
    ELSE IF ~valid_subscribe_topic(user_input[topic_key])
    THEN [exc |-> "", errors |-> Put(errs, topic_key, "invalid_" \o topic_key \o "_topic")]
    ELSE IF CheckTopicExists(user_input[topic_key], ents)
    THEN [exc |-> "", errors |-> Put(errs, topic_key, "duplicate_" \o topic_key)]
    ELSE [exc |-> "", errors |-> errs]

\* line 187: if not errors
ShouldCheckSameDevice(errs) == errs = EmptyDict

\* a line 193 that connects whatever the errors
ShouldTryConnectAlways(errs) == TRUE

\* line 193: if not errors and ... try_connect
ShouldTryConnect(errs) == errs = EmptyDict

\* validate_common: the errors it returns and the number of try_connect calls
ValidateCommon(gw_type, errs, user_input, ents, connect_ok) ==
    LET e1 == Update(errs, ValidateVersion(user_input[CONF_VERSION]))
        device_ok == IF gw_type = CONF_GATEWAY_TYPE_TCP
                     THEN is_socket_address(user_input[CONF_DEVICE])
                     ELSE is_serial_port(user_input[CONF_DEVICE])
        e2 == IF gw_type # CONF_GATEWAY_TYPE_MQTT /\ ~device_ok
              THEN Put(e1, CONF_DEVICE,
                       IF gw_type = CONF_GATEWAY_TYPE_TCP THEN "invalid_ip"
                       ELSE "invalid_serial")
              ELSE e1
        has_file == /\ CONF_PERSISTENCE_FILE \in DOMAIN user_input
                    /\ user_input[CONF_PERSISTENCE_FILE] # <<>>
        e3 == IF has_file
              THEN ValidatePersistenceFileInto(user_input[CONF_PERSISTENCE_FILE], e2)
              ELSE e2
        e4 == IF /\ ShouldCheckSameDevice(e3)
                 /\ \E other_entry \in ents : IsSameDevice(gw_type, user_input, other_entry)
              THEN Put(e3, "base", "already_configured")
              ELSE e3
        tried == ShouldTryConnect(e4)
        e5 == IF tried /\ ~connect_ok THEN Put(e4, "base", "cannot_connect") ELSE e4
    IN [errors |-> e5, connects |-> IF tried THEN 1 ELSE 0]

\* _get_common_schema: the keys of the dictionary it returns are voluptuous markers
GetCommonSchemaKeys ==
    { [marker |-> "Required", schema |-> CONF_VERSION],
      [marker |-> "Optional", schema |-> CONF_PERSISTENCE_FILE] }

\* _get_gateway_schema: vol.Schema(base_schema, **common) passes the common
\* schema's keys as keyword names, which Python accepts only when all are str
GetGatewaySchemaRaises == \E k \in GetCommonSchemaKeys : k.marker # "str"

NoResult ==
    [type |-> "none", step_id |-> "", errors |-> EmptyDict, title |-> "",
     data |-> EmptyDict, exc |-> "", reason |-> ""]

Raise(exc) == [NoResult EXCEPT !.type = "raise", !.exc = exc]

\* async_show_menu
ShowMenu == [NoResult EXCEPT !.type = "menu", !.step_id = "select_gateway_type"]

\* async_abort
Abort(reason) == [NoResult EXCEPT !.type = "abort", !.reason = reason]

\* lines 104-106: build the schema, then async_show_form
ShowForm(step_id, errs) ==
    IF GetGatewaySchemaRaises THEN Raise("TypeError")
    ELSE [NoResult EXCEPT !.type = "form", !.step_id = step_id, !.errors = errs]

\* _async_create_entry
AsyncCreateEntry(user_input, gw_type) ==
    [NoResult EXCEPT !.type = "create_entry",
                     !.title = user_input[CONF_DEVICE],
                     !.data = Put(user_input, CONF_GATEWAY_TYPE, gw_type)]

\* a line 101 that looks at the "base" error only
ShouldCreateEntryBaseOnly(errs) == "base" \notin DOMAIN errs

\* line 101: if not errors
ShouldCreateEntry(errs) == errs = EmptyDict

\* _async_create_gateway_entry: the result, the errors dictionary and the
\* number of connection attempts
AsyncCreateGatewayEntry(has_input, user_input, gw_type, step_id, ents, connect_ok) ==
    IF ~has_input
    THEN [result |-> ShowForm(step_id, EmptyDict), errors |-> EmptyDict, connects |-> 0]
    ELSE
    LET t_in == ValidateTopic(user_input, EmptyDict, CONF_TOPIC_IN_PREFIX, ents)
        t_out == ValidateTopic(user_input, t_in.errors, CONF_TOPIC_OUT_PREFIX, ents)
        common == ValidateCommon(gw_type, t_out.errors, user_input, ents, connect_ok)
    IN  IF t_in.exc # ""
        THEN [result |-> Raise(t_in.exc), errors |-> t_in.errors, connects |-> 0]
        ELSE IF t_out.exc # ""
        THEN [result |-> Raise(t_out.exc), errors |-> t_out.errors, connects |-> 0]
        ELSE IF ShouldCreateEntry(common.errors)
        THEN [result |-> AsyncCreateEntry(user_input, gw_type),
              errors |-> common.errors, connects |-> common.connects]
        ELSE [result |-> ShowForm(step_id, common.errors),
              errors |-> common.errors, connects |-> common.connects]

NoCall ==
    [step_id |-> "", has_input |-> FALSE, user_input |-> EmptyDict, connect_ok |-> FALSE]

\* no call of the flow is running
Idle == call = NoCall

\* a call ends: the host stores the entry of a create_entry result
Finish(out, c) ==
    /\ result' = out.result
    /\ errors' = out.errors
    /\ connects' = out.connects
    /\ call' = c
    /\ entries' = IF out.result.type = "create_entry"
                  THEN entries \cup {[title |-> out.result.title, data |-> out.result.data]}
                  ELSE entries
    /\ UNCHANGED <<gw_type_attr, components, checked>>
    /\ UNCHANGED <<xs1Vars, diagVars>>

\* a call of a gateway step; connect_ok is the answer try_connect has for it
Step(step_id, has_input, user_input, connect_ok) ==
    LET out == AsyncCreateGatewayEntry(has_input, user_input, StepGwType(step_id),
                                       step_id, entries, connect_ok)
    IN Finish(out, [step_id |-> step_id, has_input |-> has_input,
                    user_input |-> user_input, connect_ok |-> connect_ok])

\* every call a user can make of a step: without input, or with a submission
Calls ==
    {[has_input |-> FALSE, user_input |-> EmptyDict]}
        \cup {[has_input |-> TRUE, user_input |-> u] : u \in UserInputs}

\* async_step_user
AsyncStepUser ==
    /\ Idle
    /\ Finish([result |-> ShowMenu, errors |-> EmptyDict, connects |-> 0],
              [NoCall EXCEPT !.step_id = "user"])

\* async_step_gw_serial, called with one of calls
StepGwSerial(calls) ==
    /\ Idle
    /\ \E c \in calls, connect_ok \in BOOLEAN :
          Step("gw_serial", c.has_input, c.user_input, connect_ok)

\* async_step_gw_tcp, called with one of calls
StepGwTcp(calls) ==
    /\ Idle
    /\ \E c \in calls, connect_ok \in BOOLEAN :
          Step("gw_tcp", c.has_input, c.user_input, connect_ok)

\* async_step_gw_mqtt, called with one of calls
StepGwMqtt(calls) ==
    /\ Idle
    /\ \E c \in calls, connect_ok \in BOOLEAN :
          IF MQTT_COMPONENT \notin components
          THEN Finish([result |-> Abort("mqtt_required"), errors |-> EmptyDict,
                       connects |-> 0],
                      [step_id |-> "gw_mqtt", has_input |-> c.has_input,
                       user_input |-> c.user_input, connect_ok |-> connect_ok])
          ELSE Step("gw_mqtt", c.has_input, c.user_input, connect_ok)

AsyncStepGwSerial == StepGwSerial(Calls)

AsyncStepGwTcp == StepGwTcp(Calls)

AsyncStepGwMqtt == StepGwMqtt(Calls)

\* the host sets up the MQTT integration
LoadMqtt ==
    /\ Idle
    /\ MQTT_COMPONENT \notin components
    /\ components' = components \cup {MQTT_COMPONENT}
    /\ UNCHANGED <<entries, call, result, errors, connects, gw_type_attr, checked>>
    /\ UNCHANGED <<xs1Vars, diagVars>>

NotChecked == [called |-> FALSE, value |-> <<>>, raised |-> FALSE, returned |-> <<>>]

\* the call's result has been handed to its caller; the handler's locals are gone
Return ==
    /\ ~Idle
    /\ call' = NoCall
    /\ result' = NoResult
    /\ errors' = EmptyDict
    /\ connects' = 0
    /\ checked' = NotChecked
    /\ UNCHANGED <<entries, gw_type_attr, components>>
    /\ UNCHANGED <<xs1Vars, diagVars>>

\* __init__, with no config entry in the host; the other adapters are not in use
Init ==
    /\ entries = {}
    /\ call = NoCall
    /\ result = NoResult
    /\ errors = EmptyDict
    /\ connects = 0
    /\ gw_type_attr = "None"
    /\ components = {}
    /\ checked = NotChecked
    /\ actuators = <<>>
    /\ add_entities_calls = <<>>
    /\ xs1_pc = "ready"
    /\ zha_device_info = DefaultInfo
    /\ zha_endpoints = DefaultEndpoints
    /\ zha_data = DefaultData
    /\ diag_call = ""
    /\ diag_result = NoDiagnostics

Next ==
    \/ AsyncStepUser
    \/ AsyncStepGwSerial
    \/ AsyncStepGwTcp
    \/ AsyncStepGwMqtt
    \/ LoadMqtt
    \/ Return

Spec == Init /\ [][Next]_vars

\* a call of one of the three gateway steps that submitted user input has ended
Submitted == call.step_id \in StepIds /\ call.has_input

\* the same of the call that ends in the next state
SubmittedNext == call'.step_id \in StepIds /\ call'.has_input

(***************************************************************************)
(* validate_persistence_file on its own, and the persistence file in the    *)
(* gateway form                                                            *)
(***************************************************************************)
MaxStemLen == 1

\* the character sequences over alphabet of length at most n
RECURSIVE SeqsUpTo(_, _)
SeqsUpTo(alphabet, n) ==
    IF n = 0 THEN {<<>>}
    ELSE LET shorter == SeqsUpTo(alphabet, n - 1)
         IN shorter \cup {<<c>> \o t : c \in alphabet, t \in {x \in shorter : Len(x) = n - 1}}

Endings ==
    { <<>>, DOT_JSON, DOT_PICKLE, DOT_TXT,
      <<"j", "s", "o", "n">>, <<".", "j", "s", "o">>, <<".", "J", "S", "O", "N">>,
      DOT_JSON \o <<"x">>, DOT_JSON \o DOT_TXT, DOT_TXT \o DOT_JSON,
      <<".", "p", "i", "c", "k", "l">>, <<"p", "i", "c", "k", "l", "e">>,
      DOT_PICKLE \o <<".">> }

FileNames == {stem \o ending : stem \in SeqsUpTo({"a", "."}, MaxStemLen), ending \in Endings}

\* submissions that differ in the persistence file: the device of the step, a
\* valid version, with or without a pair of valid topic prefixes
FileCalls(device) ==
    LET base == [k \in {CONF_DEVICE, CONF_VERSION} |->
                    IF k = CONF_DEVICE THEN device ELSE "2.3"]
        with_topics == Put(Put(base, CONF_TOPIC_IN_PREFIX, "t1"), CONF_TOPIC_OUT_PREFIX, "t2")
    IN  {[has_input |-> TRUE, user_input |-> u] : u \in {base, with_topics}}
          \cup {[has_input |-> TRUE, user_input |-> Put(u, CONF_PERSISTENCE_FILE, f)] :
                    u \in {base, with_topics}, f \in FileNames}

\* a direct call of validate_persistence_file
ValidatePersistenceFileCall ==
    /\ Idle
    /\ \E value \in FileNames :
         LET out == validate_persistence_file(value)
         IN /\ checked' = [called |-> TRUE, value |-> value, raised |-> out.raised,
                           returned |-> out.value]
            /\ call' = [NoCall EXCEPT !.step_id = "validate_persistence_file"]
    /\ UNCHANGED <<entries, result, errors, connects, gw_type_attr, components>>
    /\ UNCHANGED <<xs1Vars, diagVars>>

FileStepGwSerial == StepGwSerial(FileCalls(SerialDevice))

FileStepGwTcp == StepGwTcp(FileCalls(TcpDevice))

FileStepGwMqtt == StepGwMqtt(FileCalls(MQTT_COMPONENT))

NextFile ==
    \/ ValidatePersistenceFileCall
    \/ FileStepGwSerial
    \/ FileStepGwTcp
    \/ FileStepGwMqtt
    \/ LoadMqtt
    \/ Return

SpecFile == Init /\ [][NextFile]_vars

\* the last n characters of s are those of suffix, compared one by one
LastCharsAre(s, suffix) ==
    /\ Len(s) >= Len(suffix)
    /\ \A i \in 1..Len(suffix) : s[Len(s) - Len(suffix) + i] = suffix[i]

FieldKeys ==
    {CONF_VERSION, CONF_DEVICE, CONF_PERSISTENCE_FILE, CONF_TOPIC_IN_PREFIX,
     CONF_TOPIC_OUT_PREFIX}

\* the topic prefixes an entry holds
Prefixes(entry) ==
    {entry.data[k] : k \in {CONF_TOPIC_IN_PREFIX, CONF_TOPIC_OUT_PREFIX} \cap DOMAIN entry.data}

\* C1: a config entry is created only by a submission to a gateway step whose
\* validation left the errors dictionary empty; a submission that produced an
\* error never creates an entry.
C1_EntryOnlyWithoutErrors ==
    [][ /\ entries' # entries =>
              /\ SubmittedNext
              /\ errors' = EmptyDict
              /\ result'.type = "create_entry"
        /\ errors' # EmptyDict => entries' = entries
        /\ errors' # EmptyDict => result'.type # "create_entry" ]_vars

\* C1 witness: a second entry has been created by a submission without errors
C1_Witness ==
    /\ Submitted
    /\ result.type = "create_entry"
    /\ errors = EmptyDict
    /\ Cardinality(entries) = 2

\* the submission u is valid for the gateway type of step_id, given the entries ents
ValidForStep(step_id, u, ents, comps) ==
    /\ u[CONF_VERSION] = "2.3"
    /\ CONF_PERSISTENCE_FILE \in DOMAIN u =>
          u[CONF_PERSISTENCE_FILE] \in {<<>>, <<"a">> \o DOT_JSON}
    /\ \A e \in ents : e.data[CONF_DEVICE] # u[CONF_DEVICE]
    /\ CASE step_id = "gw_serial" ->
              /\ u[CONF_DEVICE] = SerialDevice
              /\ {CONF_TOPIC_IN_PREFIX, CONF_TOPIC_OUT_PREFIX} \cap DOMAIN u = {}
         [] step_id = "gw_tcp" ->
              /\ u[CONF_DEVICE] = TcpDevice
              /\ {CONF_TOPIC_IN_PREFIX, CONF_TOPIC_OUT_PREFIX} \cap DOMAIN u = {}
         [] step_id = "gw_mqtt" ->
              /\ MQTT_COMPONENT \in comps
              /\ {CONF_TOPIC_IN_PREFIX, CONF_TOPIC_OUT_PREFIX} \subseteq DOMAIN u
              /\ \A k \in {CONF_TOPIC_IN_PREFIX, CONF_TOPIC_OUT_PREFIX} :
                    /\ u[k] \in {"t1", "t2"}
                    /\ \A e \in ents : u[k] \notin Prefixes(e)

\* the call that ends in the next state created the entry the claim describes
CreatedFromInput ==
    /\ result'.type = "create_entry"
    /\ result'.data = Put(call'.user_input, CONF_GATEWAY_TYPE, StepGwType(call'.step_id))
    /\ result'.title = call'.user_input[CONF_DEVICE]
    /\ entries' = entries \cup {[title |-> result'.title, data |-> result'.data]}

\* C2: for each of the three gateway types, a submission that is valid for the
\* type (serial/TCP: valid device and version, no topic prefixes; MQTT: valid,
\* unused prefixes, MQTT loaded; no conflicting entry; connection succeeds) ends
\* with a created entry whose data is the input plus the gateway type and whose
\* title is the submitted device.
C2_ValidSubmissionCreatesEntry ==
    [][ ( /\ SubmittedNext
          /\ call'.connect_ok
          /\ ValidForStep(call'.step_id, call'.user_input, entries, components) )
        => CreatedFromInput ]_vars

\* C3: a submission that fails validation (here: whose validation ran to its
\* end and left errors) is answered by the form of the same step with the
\* non-empty errors dictionary; the flow neither aborts nor raises.
C3_FailedSubmissionShowsForm ==
    (Submitted /\ errors # EmptyDict /\ result.exc # "KeyError") =>
        /\ result.type = "form"
        /\ result.step_id = call.step_id
        /\ result.errors = errors
        /\ DOMAIN result.errors \subseteq FieldKeys \cup {"base"}

\* C8: try_connect runs at most once in a submission and only when the version,
\* device, persistence-file, topic and duplicate-device checks left errors
\* empty; "already_configured" comes with no field error, "cannot_connect" with
\* neither a field error nor an already-configured device.
C8_ConnectOnlyAfterCleanChecks ==
    [][ SubmittedNext =>
        LET u == call'.user_input
            e == errors'
            topics_ok ==
                \A k \in {CONF_TOPIC_IN_PREFIX, CONF_TOPIC_OUT_PREFIX} :
                    /\ k \in DOMAIN u
                    /\ u[k] \in {"t1", "t2"}
                    /\ \A o \in entries : u[k] \notin Prefixes(o)
            file_ok ==
                \/ CONF_PERSISTENCE_FILE \notin DOMAIN u
                \/ u[CONF_PERSISTENCE_FILE] \in {<<>>, <<"a">> \o DOT_JSON}
            device_ok ==
                CASE call'.step_id = "gw_serial" -> u[CONF_DEVICE] = SerialDevice
                  [] call'.step_id = "gw_tcp" -> u[CONF_DEVICE] = TcpDevice
                  [] OTHER -> TRUE
            fields_ok == u[CONF_VERSION] = "2.3" /\ device_ok /\ file_ok /\ topics_ok
            same_device == \E o \in entries : o.data[CONF_DEVICE] = u[CONF_DEVICE]
        IN  /\ connects' \in {0, 1}
            /\ connects' = 1 => (fields_ok /\ ~same_device)
            /\ connects' = 1 => e \in {EmptyDict, [k \in {"base"} |-> "cannot_connect"]}
            /\ ("base" \in DOMAIN e /\ e["base"] = "already_configured") =>
                  (DOMAIN e = {"base"} /\ fields_ok /\ same_device /\ connects' = 0)
            /\ ("base" \in DOMAIN e /\ e["base"] = "cannot_connect") =>
                  (DOMAIN e = {"base"} /\ ~same_device /\ connects' = 1
                     /\ ~call'.connect_ok)
            /\ (DOMAIN e \cap FieldKeys # {}) => connects' = 0 ]_vars

\* C8 witness: a connection was attempted and failed, next to an existing entry
C8_Witness ==
    /\ Submitted
    /\ connects = 1
    /\ errors = [k \in {"base"} |-> "cannot_connect"]
    /\ entries # {}

InitXS1 ==
    /\ actuators \in ActuatorLists
    /\ add_entities_calls = <<>>
    /\ xs1_pc = "ready"
    /\ entries = {}
    /\ call = NoCall
    /\ result = NoResult
    /\ errors = EmptyDict
    /\ connects = 0
    /\ gw_type_attr = "None"
    /\ components = {}
    /\ checked = NotChecked
    /\ zha_device_info = DefaultInfo
    /\ zha_endpoints = DefaultEndpoints
    /\ zha_data = DefaultData
    /\ diag_call = ""
    /\ diag_result = NoDiagnostics

NextXS1 == SetupPlatform

SpecXS1 == InitXS1 /\ [][NextXS1]_vars

\* one part of the data the diagnostics read is drawn from the bounded values,
\* the rest is fixed; the other adapters are not in use
InitDiag ==
    /\ diag_call = ""
    /\ diag_result = NoDiagnostics
    /\ \/ /\ zha_device_info \in UNION {DictValues(key, MaxDepth) : key \in KEYS_TO_REDACT}
          /\ zha_endpoints = DefaultEndpoints
          /\ zha_data = DefaultData
       \/ /\ zha_device_info = DefaultInfo
          /\ zha_endpoints \in EndpointMaps
          /\ zha_data = DefaultData
       \/ /\ zha_device_info = DefaultInfo
          /\ zha_endpoints = DefaultEndpoints
          /\ \E key \in KEYS_TO_REDACT :
               \E v \in DictValues(key, MaxDepth) :
                 \E part \in {"yaml_config", "config_entry", "dataclass", "as_dict"} :
                    zha_data =
                       CASE part = "yaml_config" -> [DefaultData EXCEPT !.yaml_config = v]
                         [] part = "config_entry" -> [DefaultData EXCEPT !.config_entry = v]
                         [] part = "dataclass" ->
                                [DefaultData EXCEPT !.app_state = AsDataclass(v)]
                         [] part = "as_dict" ->
                                [DefaultData EXCEPT !.app_state = AsAsDictObject(v)]
    /\ entries = {}
    /\ call = NoCall
    /\ result = NoResult
    /\ errors = EmptyDict
    /\ connects = 0
    /\ gw_type_attr = "None"
    /\ components = {}
    /\ checked = NotChecked
    /\ actuators = <<>>
    /\ add_entities_calls = <<>>
    /\ xs1_pc = "ready"

NextDiag ==
    \/ AsyncGetDeviceDiagnostics
    \/ AsyncGetConfigEntryDiagnostics

SpecDiag == InitDiag /\ [][NextDiag]_vars

\* the positions of the switch and dimmer actuators
SwitchPositions == {i \in 1..Len(actuators) : actuators[i].type \in {"SWITCH", "DIMMER"}}

\* the j-th smallest of a set of positions
Nth(positions, j) == CHOOSE i \in positions : Cardinality({k \in positions : k < i}) = j - 1

\* C5: setup_platform calls add_entities exactly once, with one XS1SwitchEntity
\* per SWITCH or DIMMER actuator, in the actuators' order, and none for any
\* other actuator; without such an actuator the entity list is empty.
C5_SwitchEntities ==
    /\ xs1_pc = "ready" => add_entities_calls = <<>>
    /\ xs1_pc = "done" =>
          /\ Len(add_entities_calls) = 1
          /\ Len(add_entities_calls[1]) = Cardinality(SwitchPositions)
          /\ \A j \in 1..Len(add_entities_calls[1]) :
                add_entities_calls[1][j].device = actuators[Nth(SwitchPositions, j)]

\* C5 witness: a dimmer, another actuator and a switch gave two entities
C5_Witness ==
    /\ xs1_pc = "done"
    /\ Len(actuators) = 3
    /\ actuators[1].type = "DIMMER"
    /\ actuators[2].type = "SHUTTER"
    /\ actuators[3].type = "SWITCH"
    /\ Len(add_entities_calls[1]) = 2

\* some dict key of to_redact, at any depth of node, holds something else than
\* the redaction marker
RECURSIVE Exposes(_, _)
Exposes(node, to_redact) ==
    CASE node.kind = "dict" ->
            \E k \in DOMAIN node.items :
                IF k \in to_redact THEN node.items[k] # Leaf(REDACTED)
                ELSE Exposes(node.items[k], to_redact)
      [] node.kind = "list" -> \E i \in DOMAIN node.items : Exposes(node.items[i], to_redact)
      [] OTHER -> FALSE

\* C4: in what async_get_config_entry_diagnostics and
\* async_get_device_diagnostics return, no key of KEYS_TO_REDACT holds its
\* original value, at any depth of the returned dictionary, cluster_details
\* included.
C4_KeysRedacted ==
    diag_call # "" =>
        /\ diag_result.kind = "dict"
        /\ ~Exposes(diag_result, KEYS_TO_REDACT)
        /\ diag_call = "device" => CLUSTER_DETAILS \in DOMAIN diag_result.items

\* C4 witness: the device info held a network key two dicts deep, and the
\* device diagnostics were returned
C4_Witness ==
    /\ diag_call = "device"
    /\ \E k \in DOMAIN zha_device_info.items :
          /\ zha_device_info.items[k].kind = "dict"
          /\ "network_key" \in DOMAIN zha_device_info.items[k].items
          /\ zha_device_info.items[k].items["network_key"] = Leaf("original")
          /\ diag_result.items[k].items["network_key"] = Leaf(REDACTED)

\* C6: producing diagnostics leaves the data it reads as it was: the device's
\* endpoints, clusters and attribute values, and the dictionary obtained from
\* zha_device.zha_device_info, which has no cluster_details key added to it.
C6_DeviceInfoNotMutated ==
    [][ /\ zha_endpoints' = zha_endpoints
        /\ zha_data' = zha_data
        /\ zha_device_info' = zha_device_info
        /\ CLUSTER_DETAILS \notin DOMAIN zha_device_info'.items ]_vars

\* the part of C6 about the endpoints, clusters and attribute values alone
EndpointsNotMutated == [][zha_endpoints' = zha_endpoints /\ zha_data' = zha_data]_vars

\* the part of C2 about the MQTT gateway alone
MqttValidSubmissionCreatesEntry ==
    [][ ( /\ SubmittedNext
          /\ call'.step_id = "gw_mqtt"
          /\ call'.connect_ok
          /\ ValidForStep(call'.step_id, call'.user_input, entries, components) )
        => CreatedFromInput ]_vars

====
